---- MODULE Spec2Model ----
(***************************************************************************)
(* The telehash switch core: the main controller (controller_main.go), a   *)
(* single goroutine that owns the peer table, the lines map and the        *)
(* active-lines index and serves requests arriving on unbuffered channels, *)
(* and the NAT mapper (transports/nat/nat_transport.go).                   *)
(*                                                                         *)
(* A send on an unbuffered channel and the controller's receive form one   *)
(* rendezvous; the handler that runs on it, its reply included, is one     *)
(* action.  The arguments of a request are local to the caller until the   *)
(* rendezvous, so they are drawn when the controller receives the command. *)
(* The statistics tick of both loops only logs and is a stuttering step.   *)
(***************************************************************************)
EXTENDS Integers, FiniteSets, Sequences, TLC

\* ------------------------------------------------------------- bounds
NumPeers == 2      \* remote hashnames 1..NumPeers
MaxLines == 2      \* line objects ever created by get_line
NumCallers == 2    \* concurrent API callers
NumClosers == 3    \* concurrent callers of Close
NumPorts == 1      \* internal ports 1..NumPorts of the local addresses
NumCSIDs == 3      \* cipher set ids 0x1a, 0x2a, ... of the key sets
NumReaders == 1    \* concurrent callers of LocalAddresses
NumNatClosers == 2 \* concurrent callers of the NAT transport's Close

\* ---------------------------------------------------------- constants
ShutdownCap == 1   \* make(chan bool, 1)

Nil == 0
Hashnames == 1..NumPeers
LineIds == 1..MaxLines
Callers == 1..NumCallers
Closers == 1..NumClosers

\* main_state bits
main_running == "running"
main_terminating == "terminating"

\* line.prv_key.id: the local token of a line, the key of active_lines
local_token(l) == <<"token", l>>
Tokens == {local_token(l) : l \in LineIds}

\* addr_t values carried by AddPeer and by the hints of GetLine:
\* addr (a transport address), pubkey, via (a relay hashname)
NoAddr == [addr |-> FALSE, pubkey |-> FALSE, via |-> FALSE]
AddrOnly == [addr |-> TRUE, pubkey |-> FALSE, via |-> FALSE]
Direct == [addr |-> TRUE, pubkey |-> TRUE, via |-> FALSE]
Relay == [addr |-> TRUE, pubkey |-> FALSE, via |-> TRUE]
AddrInputs == {NoAddr, AddrOnly, Direct, Relay}

VARIABLES
    state,              \* c.state: the set of main_state bits
    ctl_pc,             \* where the controller goroutine is
    shutdown_n,         \* messages buffered in c.shutdown
    lines,              \* c.lines: hashname -> line or Nil
    active_lines,       \* c.active_lines: token -> line or Nil
    num_open_lines,     \* c.num_open_lines
    num_running_lines,  \* c.num_running_lines
    peers,              \* c.peers: hashname -> peer record
    line,               \* the line objects and their runners
    next_line,          \* the next line object get_line allocates
    call_pc,            \* each API caller: idle, send (at chan <- cmd), recv (at <-reply)
    held,               \* the line each caller got from its last GetLine
    last,               \* the request handled last and its reply
    closer_pc,          \* each Close caller
    \* the NAT transport
    nat,                \* t.nat # nil: a NAT device is known
    done,               \* t.done is closed
    mapping,            \* t.mapping: key -> natMapping
    nat_pc,             \* the mapper goroutine: discover, mapping, exited
    known,              \* knownAddrs of runDiscoverMode
    locals,             \* t.t.LocalAddresses(), the wrapped transport's
    tick,               \* what the mapper did on its last tick
    mpc,                \* the mapper inside a tick of mapping mode
    work,               \* the tick's local variables: the new table
    readers,            \* the callers of LocalAddresses holding t.mtx.RLock
    view,               \* what each of them may have read of the table
    got,                \* addrs of each caller of LocalAddresses: what it returned last
    wr,                 \* the mapper's last write to the shared table
    \* cipher set negotiation
    sel,                \* the key sets given to SelectCSID and its result
    ncl,                \* each caller of the transport's Close: out, closing, panicked
    calling             \* the callers of LocalAddresses between its first line and RLock

ctl_vars == <<state, ctl_pc, shutdown_n, lines, active_lines, num_open_lines,
              num_running_lines, peers, line, next_line, call_pc, held, last,
              closer_pc>>

nat_vars == <<nat, done, mapping, nat_pc, known, locals, tick>>

aux_vars == <<mpc, work, readers, view, got, wr, sel, ncl, calling>>

vars == <<ctl_vars, nat_vars, aux_vars>>

\* ------------------------------------------------------- main_state
\* s.test(is, is_not): every bit of is is set and no bit of is_not is
test(s, is, is_not) == is \subseteq s /\ s \cap is_not = {}

\* s.mod(add, rem)
mod(s, add, rem) == (s \cup add) \ rem

\* ------------------------------------------------------- peer table
NoPeer == [known |-> FALSE, addr |-> FALSE, pubkey |-> FALSE, via |-> FALSE,
           is_down |-> FALSE]

\* an address that carries a path (a transport address or a relay)
HasPath(a) == a.addr \/ a.via

\* peers.add_peer(addr): insert, or merge into the record (union of the
\* paths, adoption of the public key); the merge leaves is_down as it is
peers_add_peer(ps, h, a) ==
    IF ~ps[h].known
    THEN [peers |-> [ps EXCEPT ![h] = [known |-> TRUE, addr |-> a.addr,
                                       pubkey |-> a.pubkey, via |-> a.via,
                                       is_down |-> FALSE]],
          discovered |-> TRUE]
    ELSE [peers |-> [ps EXCEPT ![h] = [known |-> TRUE,
                                       addr |-> @.addr \/ a.addr,
                                       pubkey |-> @.pubkey \/ a.pubkey,
                                       via |-> @.via \/ a.via,
                                       is_down |-> @.is_down]],
          discovered |-> FALSE]

\* peers.get_peer(hashname)
peers_get_peer(ps, h) == IF ps[h].known THEN h ELSE Nil

RECURSIVE Xor(_, _)
Xor(a, b) ==
    IF a = 0 /\ b = 0 THEN 0
    ELSE (((a % 2) + (b % 2)) % 2) + 2 * Xor(a \div 2, b \div 2)

RECURSIVE closest(_, _, _)
closest(S, h, n) ==
    IF n = 0 \/ S = {} THEN <<>>
    ELSE LET m == CHOOSE p \in S : \A q \in S : Xor(p, h) <= Xor(q, h)
         IN <<m>> \o closest(S \ {m}, h, n - 1)

\* peers.find_closest_peers(hashname, n)
find_closest_peers(ps, h, n) == closest({p \in Hashnames : ps[p].known}, h, n)

\* ------------------------------------------------------------ lines
\* A line object: its peer, the position of its runner, whether Shutdown
\* was called on it and whether its state has the peer_down bit.
NoLineRec == [peer |-> Nil, pc |-> "none", shut |-> FALSE, peer_down |-> FALSE]

\* line.Init(sw, peer); line.EnsureRunning(): the runner starts and will
\* first send the line on register_line_chan
NewLine(h) == [peer |-> h, pc |-> "idle", shut |-> FALSE, peer_down |-> FALSE]

\* line.Shutdown()
Shutdown(ln, l) == [ln EXCEPT ![l].shut = TRUE]

ShutdownAll(ln, S) == [l \in LineIds |-> IF l \in S THEN Shutdown(ln, l)[l] ELSE ln[l]]

\* the lines a map holds
Range(m) == {m[k] : k \in DOMAIN m} \ {Nil}

\* get_line without the lookup of the existing line
get_line_always_dials(ls, ps, nl, h, a) ==
    LET r == peers_add_peer(ps, h, a)
        p == r.peers[h]
    IN IF ~p.is_down /\ (p.pubkey \/ p.via) /\ p.addr
       THEN [lines |-> [ls EXCEPT ![h] = nl], peers |-> r.peers,
             created |-> nl, line |-> nl, hashname |-> h]
       ELSE [lines |-> ls, peers |-> r.peers, created |-> Nil, line |-> ls[h],
             hashname |-> h]

\* get_line without the test of is_down
get_line_ignores_down(ls, ps, nl, h, a) ==
    IF ls[h] # Nil
    THEN [lines |-> ls, peers |-> ps, created |-> Nil, line |-> ls[h],
          hashname |-> h]
    ELSE LET r == peers_add_peer(ps, h, a)
             p == r.peers[h]
         IN IF (p.pubkey \/ p.via) /\ p.addr
            THEN [lines |-> [ls EXCEPT ![h] = nl], peers |-> r.peers,
                  created |-> nl, line |-> nl, hashname |-> h]
            ELSE [lines |-> ls, peers |-> r.peers, created |-> Nil,
                  line |-> Nil, hashname |-> h]

\* get_line(cmd) on lines ls, peers ps, with nl the next line object:
\* the maps after it, the line it created (or Nil) and the line it replies
get_line(ls, ps, nl, h, a) ==
    IF ls[h] # Nil
    THEN [lines |-> ls, peers |-> ps, created |-> Nil, line |-> ls[h],
          hashname |-> h]
    ELSE LET r == peers_add_peer(ps, h, a)
             p == r.peers[h]
         IN IF p.is_down
            THEN [lines |-> ls, peers |-> r.peers, created |-> Nil,
                  line |-> Nil, hashname |-> h]
            ELSE IF (p.pubkey \/ p.via) /\ p.addr
                 THEN [lines |-> [ls EXCEPT ![h] = nl], peers |-> r.peers,
                       created |-> nl, line |-> nl, hashname |-> h]
                 ELSE [lines |-> ls, peers |-> r.peers, created |-> Nil,
                       line |-> Nil, hashname |-> h]

\* unregister_line without the delete
unregister_line_keeps_entry(ls, ps, n, h, down) ==
    [lines |-> ls,
     peers |-> IF down THEN [ps EXCEPT ![h].is_down = TRUE] ELSE ps,
     num_running_lines |-> n - 1]

\* unregister_line that marks the peer down whatever the line's state
unregister_line_always_down(ls, ps, n, h, down) ==
    [lines |-> [ls EXCEPT ![h] = Nil],
     peers |-> [ps EXCEPT ![h].is_down = TRUE],
     num_running_lines |-> n - 1]

\* unregister_line(line): the maps and the counter after it
unregister_line(ls, ps, n, h, down) ==
    [lines |-> [ls EXCEPT ![h] = Nil],
     peers |-> IF down THEN [ps EXCEPT ![h].is_down = TRUE] ELSE ps,
     num_running_lines |-> n - 1]

\* ----------------------------------------------------------- replies
\* The request received last: the caller, the operation, its argument (a
\* hashname, or the line whose token is asked for), the loop that handled
\* it, and the reply: its kind (nil, line, peer, peers, added, or noreply
\* when the handler sent none) and value; path tells whether the request
\* carried an address with a path, seek whether the handler called
\* seek_discovered_peer (no handler of the loops does). waiting is the set
\* of the other callers that were blocked at their send when the request
\* was received, and prev the value replied to the request received
\* before it, when that was the same operation with the same argument in
\* the same loop and this caller was already blocked at its send then
\* (the two requests were concurrent), else Nil.
NoLast == [c |-> Nil, op |-> "none", arg |-> Nil, loop |-> "none",
           kind |-> "none", val |-> Nil, list |-> <<>>, disc |-> FALSE,
           path |-> FALSE, seek |-> FALSE, waiting |-> {}, prev |-> Nil]
Reply(c, op, arg, loop, kind, val) ==
    [c |-> c, op |-> op, arg |-> arg, loop |-> loop, kind |-> kind,
     val |-> val, list |-> <<>>, disc |-> FALSE, path |-> FALSE,
     seek |-> FALSE,
     waiting |-> {d \in Callers \ {c} : call_pc[d] = "send"},
     prev |-> IF /\ c \in last.waiting
                 /\ last.op = op
                 /\ last.arg = arg
                 /\ last.loop = loop
              THEN last.val
              ELSE Nil]
LineReply(l) == IF l = Nil THEN "nil" ELSE "line"
PeerReply(p) == IF p = Nil THEN "nil" ELSE "peer"

\* ------------------------------------------------------ NAT mapper
IntIPs == {"10.0.0.1", "10.0.0.2"}   \* what GetInternalAddress may answer
ExtIPs == {"1.2.3.4", "5.6.7.8"}     \* what GetExternalAddress may answer
NoIP == ""
Err == "err"

\* a transports.Addr: natable tells whether it implements NATableAddr;
\* proto, ip, port are what InternalAddr() yields
Addr(n, pr, ip, po) == [natable |-> n, proto |-> pr, ip |-> ip, port |-> po]

\* the addresses the wrapped transport may have: a udp address for each
\* internal IP and port, a NATableAddr whose InternalAddr() yields
\* nothing, and an address that is not a NATableAddr
LocalUniverse ==
    {Addr(TRUE, "udp4", ip, po) : ip \in IntIPs, po \in 1..NumPorts}
        \cup {Addr(TRUE, "", NoIP, 0), Addr(FALSE, "peer", NoIP, 0)}

\* mappingKey(proto, ip, internal_port)
mappingKey(proto, ip, internal_port) == <<proto, ip, internal_port>>

\* the test of updateMappings and asNATableAddr: a NATableAddr with a
\* proto, an ip and a port > 0
IsNATable(a) == a.natable /\ a.proto # "" /\ a.ip # NoIP /\ a.port > 0

KeyOf(a) == mappingKey(a.proto, a.ip, a.port)

\* nataddr.MakeGlobal(ip, port)
MakeGlobal(a, ip, port) == Addr(TRUE, a.proto, ip, port)

\* the answers of the NAT device to AddPortMapping followed by MakeGlobal:
\* the mapping failed, MakeGlobal returned nil, or the external port
AddAnswers(a) ==
    {[res |-> "fail", port |-> 0], [res |-> "nil", port |-> a.port],
     [res |-> "ok", port |-> a.port], [res |-> "ok", port |-> a.port + NumPorts]}

\* updateKnownAddresses(known): the keys of the NATable local addresses,
\* and whether they differ from the known ones
updateKnownAddresses(kn, ls) ==
    LET now == {KeyOf(a) : a \in {x \in ls : IsNATable(x)}}
    IN [known |-> now, changed |-> now # kn]

\* updateMappings that does not mark the entries it finds as fresh
updateMappings_never_fresh(m, ls, ext, int, out) ==
    LET staled == [k \in DOMAIN m |-> [m[k] EXCEPT !.stale = TRUE]]
        cand == {a \in ls : IsNATable(a) /\ a.ip = int}
        new == {a \in cand : KeyOf(a) \notin DOMAIN m}
        mapped == {a \in new : out[a].res = "ok"}
        AddrOf(k) == CHOOSE a \in mapped : KeyOf(a) = k
        added == [k \in {KeyOf(a) : a \in mapped} |->
                    [external |-> MakeGlobal(AddrOf(k), ext, out[AddrOf(k)].port),
                     internal |-> AddrOf(k), stale |-> FALSE]]
    IN IF ext = Err \/ int = Err
       THEN [nat |-> FALSE, mapping |-> staled, adds |-> {}, dels |-> {},
             failed |-> {}]
       ELSE [nat |-> TRUE, mapping |-> added,
             adds |-> {KeyOf(a) : a \in new}, dels |-> DOMAIN m,
             failed |-> {KeyOf(a) : a \in new \ mapped}]

\* updateMappings without the sweep of the stale entries
updateMappings_no_sweep(m, ls, ext, int, out) ==
    LET staled == [k \in DOMAIN m |-> [m[k] EXCEPT !.stale = TRUE]]
        cand == {a \in ls : IsNATable(a) /\ a.ip = int}
        fresh == {KeyOf(a) : a \in cand} \cap DOMAIN m
        new == {a \in cand : KeyOf(a) \notin DOMAIN m}
        mapped == {a \in new : out[a].res = "ok"}
        AddrOf(k) == CHOOSE a \in mapped : KeyOf(a) = k
        marked == [k \in DOMAIN m \cup {KeyOf(a) : a \in mapped} |->
                     IF k \in DOMAIN m
                     THEN [staled[k] EXCEPT !.stale = k \notin fresh]
                     ELSE [external |-> MakeGlobal(AddrOf(k), ext,
                                                   out[AddrOf(k)].port),
                           internal |-> AddrOf(k), stale |-> FALSE]]
    IN IF ext = Err \/ int = Err
       THEN [nat |-> FALSE, mapping |-> staled, adds |-> {}, dels |-> {},
             failed |-> {}]
       ELSE [nat |-> TRUE, mapping |-> marked,
             adds |-> {KeyOf(a) : a \in new}, dels |-> {},
             failed |-> {KeyOf(a) : a \in new \ mapped}]

\* updateMappings() on table m with local addresses ls, the answers ext
\* and int of GetExternalAddress and GetInternalAddress and the answers
\* out[a] for each address: the device reference kept or dropped, the
\* table, and the keys AddPortMapping and DeletePortMapping were called for
updateMappings(m, ls, ext, int, out) ==
    LET staled == [k \in DOMAIN m |-> [m[k] EXCEPT !.stale = TRUE]]
        cand == {a \in ls : IsNATable(a) /\ a.ip = int}
        fresh == {KeyOf(a) : a \in cand} \cap DOMAIN m
        new == {a \in cand : KeyOf(a) \notin DOMAIN m}
        mapped == {a \in new : out[a].res = "ok"}
        AddrOf(k) == CHOOSE a \in mapped : KeyOf(a) = k
        marked == [k \in DOMAIN m \cup {KeyOf(a) : a \in mapped} |->
                     IF k \in DOMAIN m
                     THEN [staled[k] EXCEPT !.stale = k \notin fresh]
                     ELSE [external |-> MakeGlobal(AddrOf(k), ext,
                                                   out[AddrOf(k)].port),
                           internal |-> AddrOf(k), stale |-> FALSE]]
        swept == {k \in DOMAIN marked :
                     /\ marked[k].stale
                     /\ marked[k].internal.natable
                     /\ marked[k].internal.proto # ""
                     /\ marked[k].internal.port > 0}
    IN IF ext = Err \/ int = Err
       THEN [nat |-> FALSE, mapping |-> staled, adds |-> {}, dels |-> {},
             failed |-> {}]
       ELSE [nat |-> TRUE,
             mapping |-> [k \in DOMAIN marked \ swept |-> marked[k]],
             adds |-> {KeyOf(a) : a \in new},
             dels |-> swept,
             failed |-> {KeyOf(a) : a \in new \ mapped}]

\* refreshMapping that keeps the external address of the entries
refreshMapping_no_rewrite(m, ext, int, out) ==
    LET staled == [k \in DOMAIN m |-> [m[k] EXCEPT !.stale = TRUE]]
        remap == {k \in DOMAIN m :
                     IsNATable(m[k].internal) /\ m[k].internal.ip = int}
        kept == {k \in remap : out[k].res = "ok"}
    IN IF ext = Err \/ int = Err
       THEN [nat |-> FALSE, mapping |-> staled, adds |-> {}, dels |-> {},
             failed |-> {}]
       ELSE [nat |-> TRUE, mapping |-> [k \in kept |-> staled[k]],
             adds |-> remap, dels |-> {}, failed |-> remap \ kept]

\* refreshMapping() on table m: out[k] is the answer for the entry of key k
refreshMapping(m, ext, int, out) ==
    LET staled == [k \in DOMAIN m |-> [m[k] EXCEPT !.stale = TRUE]]
        remap == {k \in DOMAIN m :
                     IsNATable(m[k].internal) /\ m[k].internal.ip = int}
        kept == {k \in remap : out[k].res = "ok"}
    IN IF ext = Err \/ int = Err
       THEN [nat |-> FALSE, mapping |-> staled, adds |-> {}, dels |-> {},
             failed |-> {}]
       ELSE [nat |-> TRUE,
             mapping |-> [k \in kept |->
                            [staled[k] EXCEPT !.external =
                                MakeGlobal(m[k].internal, ext, out[k].port)]],
             adds |-> remap,
             dels |-> {},
             failed |-> remap \ kept]

\* LocalAddresses(): the wrapped transport's addresses and the external
\* address of every mapping
LocalAddresses == locals \cup {mapping[k].external : k \in DOMAIN mapping}

NoMapping == [k \in {} |-> 0]

\* what the mapper did last: the kind of tick, whether the address
\* queries succeeded, the local addresses and the device's answers it
\* saw, the keys it called AddPortMapping and DeletePortMapping for and
\* those it got no mapping for; again tells that the tick before it was a
\* successful update tick too, with the same local addresses; had tells
\* that the table held an entry when the tick began
NoTick == [kind |-> "none", ok |-> FALSE, locals |-> {}, internal |-> NoIP,
           external |-> NoIP, adds |-> {}, dels |-> {}, failed |-> {},
           again |-> FALSE, had |-> FALSE]
Ticked(kind, r, ext, int) ==
    [kind |-> kind, ok |-> r.nat, locals |-> locals,
     internal |-> IF r.nat THEN int ELSE NoIP,
     external |-> IF r.nat THEN ext ELSE NoIP,
     adds |-> r.adds, dels |-> r.dels, failed |-> r.failed,
     again |-> /\ kind = "update"
               /\ r.nat
               /\ tick.kind = "update"
               /\ tick.ok
               /\ tick.locals = locals,
     had |-> DOMAIN mapping # {}]

NatInit ==
    /\ nat = FALSE
    /\ done = FALSE
    /\ mapping = NoMapping
    /\ nat_pc = "discover"
    /\ known = {}
    /\ locals = {}
    /\ tick = NoTick

\* discoverNAT(): found tells whether Discover and GetDeviceAddress succeed
discoverNAT(found) == nat \/ found

\* runDiscoverMode, case <-updateTicker.C, and the test of t.nat after it
NatDiscoverUpdate(found) ==
    /\ nat_pc = "discover"
    /\ LET r == updateKnownAddresses(known, locals)
           n == IF r.changed THEN discoverNAT(found) ELSE nat
       IN /\ nat' = n
          /\ known' = IF n THEN {} ELSE r.known
          /\ nat_pc' = IF n THEN "mapping" ELSE "discover"
          /\ tick' = [NoTick EXCEPT !.kind = "discover", !.locals = locals,
                                    !.ok = n]
    /\ UNCHANGED <<done, mapping, locals>>
    /\ UNCHANGED <<ctl_vars, aux_vars>>

\* runDiscoverMode, case <-discoverTicker.C
NatDiscoverTick(found) ==
    /\ nat_pc = "discover"
    /\ nat' = discoverNAT(found)
    /\ known' = IF nat' THEN {} ELSE known
    /\ nat_pc' = IF nat' THEN "mapping" ELSE "discover"
    /\ tick' = [NoTick EXCEPT !.kind = "discover", !.locals = locals,
                              !.ok = nat']
    /\ UNCHANGED <<done, mapping, locals>>
    /\ UNCHANGED <<ctl_vars, aux_vars>>

\* runDiscoverMode, case <-t.done
NatDiscoverDone ==
    /\ nat_pc = "discover"
    /\ done
    /\ nat_pc' = "exited"
    /\ UNCHANGED <<nat, done, mapping, known, locals, tick>>
    /\ UNCHANGED <<ctl_vars, aux_vars>>

\* Close(): the select on t.done and close(t.done)
NatClose ==
    /\ ~done
    /\ done' = TRUE
    /\ UNCHANGED <<nat, mapping, nat_pc, known, locals, tick>>
    /\ UNCHANGED <<ctl_vars, aux_vars>>

\* the wrapped transport's addresses change
NatLocalsChange(S) ==
    /\ S # locals
    /\ locals' = S
    /\ UNCHANGED <<nat, done, mapping, nat_pc, known, tick>>
    /\ UNCHANGED <<ctl_vars, aux_vars>>

\* the answers of the device on a tick: to the two address queries, and
\* to AddPortMapping for the addresses an update tick maps anew or the
\* entries a refresh tick maps again
QueryAnswers(ips) == ips \cup {Err}
AllAnswers == UNION {AddAnswers(a) : a \in LocalUniverse}
UpdateAnswers(ext, int) ==
    LET D == {a \in locals : /\ ext # Err
                             /\ IsNATable(a)
                             /\ a.ip = int
                             /\ KeyOf(a) \notin DOMAIN mapping}
    IN {f \in [D -> AllAnswers] : \A a \in D : f[a] \in AddAnswers(a)}
RefreshAnswers(ext, int) ==
    LET D == {k \in DOMAIN mapping : /\ ext # Err
                                     /\ IsNATable(mapping[k].internal)
                                     /\ mapping[k].internal.ip = int}
    IN {f \in [D -> AllAnswers] :
           \A k \in D : f[k] \in AddAnswers(mapping[k].internal)}

\* ------------------------------------------------ cipher set ids
\* the keys of a Keys map: uint8 cipher set ids
CSIDs == {0} \cup {16 * k + 10 : k \in 1..NumCSIDs}

RECURSIVE SelectCSIDFrom(_, _, _)

\* the loop of SelectCSID over the keys of a still to visit
SelectCSIDFrom(rest, b, max) ==
    IF rest = {}
    THEN max
    ELSE LET csid == CHOOSE x \in rest : TRUE
         IN SelectCSIDFrom(rest \ {csid}, b,
                           IF csid \in b /\ csid > max THEN csid ELSE max)

\* a selection that returns some common id
SelectCSID_any(a, b) ==
    IF a \cap b = {} THEN 0 ELSE CHOOSE x \in a \cap b : TRUE

\* SelectCSID(a, b): a uint8, 0 when the loop found nothing
SelectCSID(a, b) == SelectCSIDFrom(a, b, 0)

\* no call of SelectCSID yet
NoSel == [a |-> {}, b |-> {}, pc |-> "none", csid |-> 0, failure |-> "none"]

\* a caller builds two key sets
SelectCall(a, b) ==
    /\ sel' = [a |-> a, b |-> b, pc |-> "called", csid |-> 0,
               failure |-> "none"]
    /\ UNCHANGED <<mpc, work, readers, view, got, wr, ncl, calling>>
    /\ UNCHANGED <<ctl_vars, nat_vars>>

\* SelectCSID returns: its only result is the uint8, it has no error
SelectReturn ==
    /\ sel.pc = "called"
    /\ sel' = [sel EXCEPT !.pc = "returned",
                          !.csid = SelectCSID(sel.a, sel.b),
                          !.failure = "none"]
    /\ UNCHANGED <<mpc, work, readers, view, got, wr, ncl, calling>>
    /\ UNCHANGED <<ctl_vars, nat_vars>>

\* ------------------------------------------- the mapper, step by step
Readers == 1..NumReaders
\* the local variables of a tick: the table when the tick began, the
\* device's answers out, the new table, the entries of t.mapping the tick
\* has yet to write to, and what the tick did
NoWork == [nat |-> FALSE, before |-> NoMapping, out |-> NoMapping,
           mapping |-> NoMapping, pending |-> {}, tick |-> NoTick]
NoWrite == [what |-> "none", locked |-> TRUE, readers |-> {}]

\* the callers of the transport's Close
NatClosers == 1..NumNatClosers

AuxInit ==
    /\ mpc = "idle"
    /\ work = NoWork
    /\ readers = {}
    /\ view = [r \in Readers |-> {}]
    /\ got = [r \in Readers |-> {}]
    /\ wr = NoWrite
    /\ sel = NoSel
    /\ ncl = [c \in NatClosers |-> "out"]
    /\ calling = {}

\* --------------------------------------------------------------- Init
Init ==
    /\ state = {main_running}
    /\ ctl_pc = "active"
    /\ shutdown_n = 0
    /\ lines = [h \in Hashnames |-> Nil]
    /\ active_lines = [t \in Tokens |-> Nil]
    /\ num_open_lines = 0
    /\ num_running_lines = 0
    /\ peers = [h \in Hashnames |-> NoPeer]
    /\ line = [l \in LineIds |-> NoLineRec]
    /\ next_line = 1
    /\ call_pc = [c \in Callers |-> "idle"]
    /\ held = [c \in Callers |-> Nil]
    /\ last = NoLast
    /\ closer_pc = [k \in Closers |-> "idle"]
    /\ NatInit
    /\ AuxInit

\* ------------------------------------------------------- API callers
\* GetPeer, GetClosestPeers, AddPeer, OpenChannel and the transport
\* reader's GetLine / GetActiveLine: make the reply channel and block on
\* the send of the command
Call(c) ==
    /\ call_pc[c] = "idle"
    /\ call_pc' = [call_pc EXCEPT ![c] = "send"]
    /\ UNCHANGED <<state, ctl_pc, shutdown_n, lines, active_lines,
                   num_open_lines, num_running_lines, peers, line, next_line,
                   held, last, closer_pc>>
    /\ UNCHANGED <<nat_vars, aux_vars>>

\* ------------------------------------------------- run_active_loop
Active == ctl_pc = "active"

\* case <-c.shutdown
ActiveShutdown ==
    /\ Active
    /\ shutdown_n > 0
    /\ shutdown_n' = shutdown_n - 1
    /\ state' = mod(state, {main_terminating}, {main_running})
    /\ ctl_pc' = "enter_terminating"
    /\ UNCHANGED <<lines, active_lines, num_open_lines, num_running_lines,
                   peers, line, next_line, call_pc, held, last, closer_pc>>
    /\ UNCHANGED <<nat_vars, aux_vars>>

\* case line := <-c.activate_line_chan
ActiveActivate(l) ==
    /\ Active
    /\ line[l].pc = "open_pending"
    /\ active_lines' = [active_lines EXCEPT ![local_token(l)] = l]
    /\ num_open_lines' = num_open_lines + 1
    /\ line' = [line EXCEPT ![l].pc = "open"]
    /\ UNCHANGED <<state, ctl_pc, shutdown_n, lines, num_running_lines, peers,
                   next_line, call_pc, held, last, closer_pc>>
    /\ UNCHANGED <<nat_vars, aux_vars>>

\* where the runner of a line goes once its deactivate message is taken
AfterDeactivate(pc) == IF pc = "rekeying" THEN "opening" ELSE "closing"

\* a deactivation that deletes nothing
deactivate_keeps_entry(al, n, l) ==
    [active_lines |-> al, num_open_lines |-> n - 1]

\* case line := <-c.deactivate_line_chan (the same in both loops)
deactivate(al, n, l) ==
    [active_lines |-> [al EXCEPT ![local_token(l)] = Nil],
     num_open_lines |-> n - 1]

ActiveDeactivate(l) ==
    /\ Active
    /\ line[l].pc \in {"teardown", "rekeying"}
    /\ LET r == deactivate(active_lines, num_open_lines, l)
       IN /\ active_lines' = r.active_lines
          /\ num_open_lines' = r.num_open_lines
    /\ line' = [line EXCEPT ![l].pc = AfterDeactivate(@)]
    /\ UNCHANGED <<state, ctl_pc, shutdown_n, lines, num_running_lines, peers,
                   next_line, call_pc, held, last, closer_pc>>
    /\ UNCHANGED <<nat_vars, aux_vars>>

\* case cmd := <-c.get_active_line_chan
ActiveGetActiveLine(c, l) ==
    /\ Active
    /\ call_pc[c] = "send"
    /\ call_pc' = [call_pc EXCEPT ![c] = "idle"]
    /\ last' = Reply(c, "GetActiveLine", l, "active",
                     LineReply(active_lines[local_token(l)]),
                     active_lines[local_token(l)])
    /\ UNCHANGED <<state, ctl_pc, shutdown_n, lines, active_lines,
                   num_open_lines, num_running_lines, peers, line, next_line,
                   held, closer_pc>>
    /\ UNCHANGED <<nat_vars, aux_vars>>

\* case line := <-c.register_line_chan
ActiveRegister(l) ==
    /\ Active
    /\ line[l].pc = "idle"
    /\ lines' = [lines EXCEPT ![line[l].peer] = l]
    /\ num_running_lines' = num_running_lines + 1
    /\ line' = [line EXCEPT ![l].pc = "opening"]
    /\ UNCHANGED <<state, ctl_pc, shutdown_n, active_lines, num_open_lines,
                   peers, next_line, call_pc, held, last, closer_pc>>
    /\ UNCHANGED <<nat_vars, aux_vars>>

\* case line := <-c.unregister_line_chan
ActiveUnregister(l) ==
    /\ Active
    /\ line[l].pc = "closing"
    /\ LET r == unregister_line(lines, peers, num_running_lines, line[l].peer,
                                line[l].peer_down)
       IN /\ lines' = r.lines
          /\ peers' = r.peers
          /\ num_running_lines' = r.num_running_lines
    /\ line' = [line EXCEPT ![l].pc = "closed"]
    /\ UNCHANGED <<state, ctl_pc, shutdown_n, active_lines, num_open_lines,
                   next_line, call_pc, held, last, closer_pc>>
    /\ UNCHANGED <<nat_vars, aux_vars>>

\* the effect of get_line on the controller's maps and on the line objects
ApplyGetLine(r) ==
    /\ r.created = Nil \/ next_line <= MaxLines
    /\ lines' = r.lines
    /\ peers' = r.peers
    /\ IF r.created = Nil
       THEN UNCHANGED <<line, next_line>>
       ELSE /\ line' = [line EXCEPT ![r.created] = NewLine(r.hashname)]
            /\ next_line' = next_line + 1

\* case cmd := <-c.get_line_chan
ActiveGetLine(c, h, a) ==
    /\ Active
    /\ call_pc[c] = "send"
    /\ LET r == get_line(lines, peers, next_line, h, a)
       IN /\ ApplyGetLine(r)
          /\ last' = [Reply(c, "GetLine", h, "active", LineReply(r.line), r.line)
                        EXCEPT !.path = HasPath(a)]
          /\ held' = [held EXCEPT ![c] = r.line]
    /\ call_pc' = [call_pc EXCEPT ![c] = "idle"]
    /\ UNCHANGED <<state, ctl_pc, shutdown_n, active_lines, num_open_lines,
                   num_running_lines, closer_pc>>
    /\ UNCHANGED <<nat_vars, aux_vars>>

\* case cmd := <-c.get_peer_chan
ActiveGetPeer(c, h) ==
    /\ Active
    /\ call_pc[c] = "send"
    /\ call_pc' = [call_pc EXCEPT ![c] = "idle"]
    /\ last' = Reply(c, "GetPeer", h, "active",
                     PeerReply(peers_get_peer(peers, h)), peers_get_peer(peers, h))
    /\ UNCHANGED <<state, ctl_pc, shutdown_n, lines, active_lines,
                   num_open_lines, num_running_lines, peers, line, next_line,
                   held, closer_pc>>
    /\ UNCHANGED <<nat_vars, aux_vars>>

\* case cmd := <-c.add_peer_chan: add_peer(cmd)
ActiveAddPeer(c, h, a) ==
    /\ Active
    /\ call_pc[c] = "send"
    /\ LET p == peers_add_peer(peers, h, a)
       IN /\ IF p.discovered
             THEN ApplyGetLine(get_line(lines, p.peers, next_line, h, NoAddr))
             ELSE /\ peers' = p.peers
                  /\ UNCHANGED <<lines, line, next_line>>
          /\ last' = [Reply(c, "AddPeer", h, "active", "added", h)
                        EXCEPT !.disc = p.discovered, !.path = HasPath(a)]
    /\ call_pc' = [call_pc EXCEPT ![c] = "idle"]
    /\ UNCHANGED <<state, ctl_pc, shutdown_n, active_lines, num_open_lines,
                   num_running_lines, held, closer_pc>>
    /\ UNCHANGED <<nat_vars, aux_vars>>

\* case cmd := <-c.get_closest_peers_chan
ActiveGetClosestPeers(c, h, n) ==
    /\ Active
    /\ call_pc[c] = "send"
    /\ call_pc' = [call_pc EXCEPT ![c] = "idle"]
    /\ last' = [Reply(c, "GetClosestPeers", h, "active", "peers", Nil)
                  EXCEPT !.list = find_closest_peers(peers, h, n)]
    /\ UNCHANGED <<state, ctl_pc, shutdown_n, lines, active_lines,
                   num_open_lines, num_running_lines, peers, line, next_line,
                   held, closer_pc>>
    /\ UNCHANGED <<nat_vars, aux_vars>>

\* ---------------------------------------------- run_terminating_loop
\* the prologue without the Shutdown of the lines
EnterTerminating_NoBroadcast ==
    /\ ctl_pc = "enter_terminating"
    /\ IF Range(lines) = {}
       THEN /\ state' = mod(state, {}, {main_terminating})
            /\ ctl_pc' = "teardown"
       ELSE /\ ctl_pc' = "terminating"
            /\ UNCHANGED state
    /\ UNCHANGED <<shutdown_n, lines, active_lines, num_open_lines,
                   num_running_lines, peers, line, next_line, call_pc, held,
                   last, closer_pc>>
    /\ UNCHANGED <<nat_vars, aux_vars>>

\* the prologue: Shutdown to every line of c.lines; with no line the loop
\* is not entered, the deferred state.mod(0, main_terminating) runs and
\* run_main_loop returns
EnterTerminating ==
    /\ ctl_pc = "enter_terminating"
    /\ line' = ShutdownAll(line, Range(lines))
    /\ IF Range(lines) = {}
       THEN /\ state' = mod(state, {}, {main_terminating})
            /\ ctl_pc' = "teardown"
       ELSE /\ ctl_pc' = "terminating"
            /\ UNCHANGED state
    /\ UNCHANGED <<shutdown_n, lines, active_lines, num_open_lines,
                   num_running_lines, peers, next_line, call_pc, held, last,
                   closer_pc>>
    /\ UNCHANGED <<nat_vars, aux_vars>>

Terminating == ctl_pc = "terminating"

\* case <-c.shutdown: ignore
TermShutdown ==
    /\ Terminating
    /\ shutdown_n > 0
    /\ shutdown_n' = shutdown_n - 1
    /\ UNCHANGED <<state, ctl_pc, lines, active_lines, num_open_lines,
                   num_running_lines, peers, line, next_line, call_pc, held,
                   last, closer_pc>>
    /\ UNCHANGED <<nat_vars, aux_vars>>

\* an activation taken by the terminating loop as the running loop does
TermActivate_inserts(l) ==
    /\ Terminating
    /\ line[l].pc = "open_pending"
    /\ active_lines' = [active_lines EXCEPT ![local_token(l)] = l]
    /\ num_open_lines' = num_open_lines + 1
    /\ line' = [Shutdown(line, l) EXCEPT ![l].pc = "open"]
    /\ UNCHANGED <<state, ctl_pc, shutdown_n, lines, num_running_lines, peers,
                   next_line, call_pc, held, last, closer_pc>>
    /\ UNCHANGED <<nat_vars, aux_vars>>

\* case line := <-c.activate_line_chan: line.Shutdown()
TermActivate(l) ==
    /\ Terminating
    /\ line[l].pc = "open_pending"
    /\ line' = [Shutdown(line, l) EXCEPT ![l].pc = "open"]
    /\ UNCHANGED <<state, ctl_pc, shutdown_n, lines, active_lines,
                   num_open_lines, num_running_lines, peers, next_line,
                   call_pc, held, last, closer_pc>>
    /\ UNCHANGED <<nat_vars, aux_vars>>

\* case line := <-c.deactivate_line_chan
TermDeactivate(l) ==
    /\ Terminating
    /\ line[l].pc \in {"teardown", "rekeying"}
    /\ LET r == deactivate(active_lines, num_open_lines, l)
       IN /\ active_lines' = r.active_lines
          /\ num_open_lines' = r.num_open_lines
    /\ line' = [line EXCEPT ![l].pc = AfterDeactivate(@)]
    /\ UNCHANGED <<state, ctl_pc, shutdown_n, lines, num_running_lines, peers,
                   next_line, call_pc, held, last, closer_pc>>
    /\ UNCHANGED <<nat_vars, aux_vars>>

\* a query answered with nil
TermNil(c, op) ==
    /\ Terminating
    /\ call_pc[c] = "send"
    /\ call_pc' = [call_pc EXCEPT ![c] = "idle"]
    /\ last' = Reply(c, op, Nil, "terminating", "nil", Nil)

\* case cmd := <-c.get_active_line_chan: cmd.reply <- nil
TermGetActiveLine(c) ==
    /\ TermNil(c, "GetActiveLine")
    /\ UNCHANGED <<state, ctl_pc, shutdown_n, lines, active_lines,
                   num_open_lines, num_running_lines, peers, line, next_line,
                   held, closer_pc>>
    /\ UNCHANGED <<nat_vars, aux_vars>>

\* case line := <-c.register_line_chan: line.Shutdown()
TermRegister(l) ==
    /\ Terminating
    /\ line[l].pc = "idle"
    /\ line' = [Shutdown(line, l) EXCEPT ![l].pc = "opening"]
    /\ UNCHANGED <<state, ctl_pc, shutdown_n, lines, active_lines,
                   num_open_lines, num_running_lines, peers, next_line,
                   call_pc, held, last, closer_pc>>
    /\ UNCHANGED <<nat_vars, aux_vars>>

\* case line := <-c.unregister_line_chan, then the loop's test of
\* len(c.lines) > 0: with no line left the loop ends, the deferred
\* state.mod(0, main_terminating) runs and run_main_loop returns
TermUnregister(l) ==
    /\ Terminating
    /\ line[l].pc = "closing"
    /\ LET r == unregister_line(lines, peers, num_running_lines, line[l].peer,
                                line[l].peer_down)
       IN /\ lines' = r.lines
          /\ peers' = r.peers
          /\ num_running_lines' = r.num_running_lines
          /\ IF Range(r.lines) = {}
             THEN /\ state' = mod(state, {}, {main_terminating})
                  /\ ctl_pc' = "teardown"
             ELSE UNCHANGED <<state, ctl_pc>>
    /\ line' = [line EXCEPT ![l].pc = "closed"]
    /\ UNCHANGED <<shutdown_n, active_lines, num_open_lines, next_line,
                   call_pc, held, last, closer_pc>>
    /\ UNCHANGED <<nat_vars, aux_vars>>

\* case cmd := <-c.get_line_chan: cmd.reply <- nil
TermGetLine(c) ==
    /\ TermNil(c, "GetLine")
    /\ held' = [held EXCEPT ![c] = Nil]
    /\ UNCHANGED <<state, ctl_pc, shutdown_n, lines, active_lines,
                   num_open_lines, num_running_lines, peers, line, next_line,
                   closer_pc>>
    /\ UNCHANGED <<nat_vars, aux_vars>>

\* case cmd := <-c.get_peer_chan: cmd.reply <- nil
TermGetPeer(c) ==
    /\ TermNil(c, "GetPeer")
    /\ UNCHANGED <<state, ctl_pc, shutdown_n, lines, active_lines,
                   num_open_lines, num_running_lines, peers, line, next_line,
                   held, closer_pc>>
    /\ UNCHANGED <<nat_vars, aux_vars>>

\* case <-c.add_peer_chan: ignore.  The command is taken and nothing is
\* sent on its reply channel: the caller stays at res := <-reply
TermAddPeer(c) ==
    /\ Terminating
    /\ call_pc[c] = "send"
    /\ call_pc' = [call_pc EXCEPT ![c] = "recv"]
    /\ last' = Reply(c, "AddPeer", Nil, "terminating", "noreply", Nil)
    /\ UNCHANGED <<state, ctl_pc, shutdown_n, lines, active_lines,
                   num_open_lines, num_running_lines, peers, line, next_line,
                   held, closer_pc>>
    /\ UNCHANGED <<nat_vars, aux_vars>>

\* case cmd := <-c.get_closest_peers_chan: cmd.reply <- nil
TermGetClosestPeers(c) ==
    /\ TermNil(c, "GetClosestPeers")
    /\ UNCHANGED <<state, ctl_pc, shutdown_n, lines, active_lines,
                   num_open_lines, num_running_lines, peers, line, next_line,
                   held, closer_pc>>
    /\ UNCHANGED <<nat_vars, aux_vars>>

\* teardown(): c.wg.Done()
Teardown ==
    /\ ctl_pc = "teardown"
    /\ ctl_pc' = "stopped"
    /\ UNCHANGED <<state, shutdown_n, lines, active_lines, num_open_lines,
                   num_running_lines, peers, line, next_line, call_pc, held,
                   last, closer_pc>>
    /\ UNCHANGED <<nat_vars, aux_vars>>

\* ------------------------------------------------------ line runners
\* The runner of a line sends, in this order: the line on
\* register_line_chan; on activate_line_chan once the key exchange
\* completes and on deactivate_line_chan when teardown (or a rekey)
\* begins; the line on unregister_line_chan at the end.
LineOnly == <<state, ctl_pc, shutdown_n, lines, active_lines, num_open_lines,
              num_running_lines, peers, next_line, call_pc, held, last,
              closer_pc>>

\* the key exchange completes: the line is open
LineKeyExchange(l) ==
    /\ line[l].pc = "opening"
    /\ ~line[l].shut
    /\ line' = [line EXCEPT ![l].pc = "open_pending"]
    /\ UNCHANGED LineOnly
    /\ UNCHANGED <<nat_vars, aux_vars>>

\* opening is given up: after Shutdown, or with every path failed beyond
\* the retry budget (peer_down)
LineGiveUp(l, down) ==
    /\ line[l].pc = "opening"
    /\ line' = [line EXCEPT ![l].pc = "closing", ![l].peer_down = down]
    /\ UNCHANGED LineOnly
    /\ UNCHANGED <<nat_vars, aux_vars>>

\* teardown of an open line begins: Shutdown, user close, send failure or
\* a cryptographic failure
LineTeardown(l) ==
    /\ line[l].pc = "open"
    /\ line' = [line EXCEPT ![l].pc = "teardown"]
    /\ UNCHANGED LineOnly
    /\ UNCHANGED <<nat_vars, aux_vars>>

\* a rekey of an open line begins
LineRekey(l) ==
    /\ line[l].pc = "open"
    /\ ~line[l].shut
    /\ line' = [line EXCEPT ![l].pc = "rekeying"]
    /\ UNCHANGED LineOnly
    /\ UNCHANGED <<nat_vars, aux_vars>>

\* ------------------------------------------------------------- Close
CloseOnly == <<lines, active_lines, num_open_lines, num_running_lines, peers,
               line, next_line, call_pc, held, last>>

\* if c.State().test(main_running, main_terminating)
CloseTest(k) ==
    /\ closer_pc[k] \in {"idle", "returned"}
    /\ closer_pc' = [closer_pc EXCEPT ![k] =
                       IF test(state, {main_running}, {main_terminating})
                       THEN "send" ELSE "wait"]
    /\ UNCHANGED <<state, ctl_pc, shutdown_n>>
    /\ UNCHANGED CloseOnly
    /\ UNCHANGED <<nat_vars, aux_vars>>

\* c.shutdown <- true
CloseSend(k) ==
    /\ closer_pc[k] = "send"
    /\ shutdown_n < ShutdownCap
    /\ shutdown_n' = shutdown_n + 1
    /\ closer_pc' = [closer_pc EXCEPT ![k] = "wait"]
    /\ UNCHANGED <<state, ctl_pc>>
    /\ UNCHANGED CloseOnly
    /\ UNCHANGED <<nat_vars, aux_vars>>

\* c.wg.Wait() returns
CloseReturn(k) ==
    /\ closer_pc[k] = "wait"
    /\ ctl_pc = "stopped"
    /\ closer_pc' = [closer_pc EXCEPT ![k] = "returned"]
    /\ UNCHANGED <<state, ctl_pc, shutdown_n>>
    /\ UNCHANGED CloseOnly
    /\ UNCHANGED <<nat_vars, aux_vars>>

\* -------------------------------------------------------------- Next
LineStep ==
    \E l \in LineIds :
        \/ LineKeyExchange(l)
        \/ \E down \in BOOLEAN : LineGiveUp(l, down)
        \/ LineTeardown(l)
        \/ LineRekey(l)

\* the messages of the line runners, in both loops, and the loop changes
LineMessages ==
    \/ ActiveShutdown
    \/ \E l \in LineIds : ActiveActivate(l)
    \/ \E l \in LineIds : ActiveDeactivate(l)
    \/ \E l \in LineIds : ActiveRegister(l)
    \/ \E l \in LineIds : ActiveUnregister(l)
    \/ EnterTerminating
    \/ \E l \in LineIds : TermActivate(l)
    \/ \E l \in LineIds : TermDeactivate(l)
    \/ \E l \in LineIds : TermRegister(l)
    \/ \E l \in LineIds : TermUnregister(l)
    \/ Teardown

\* the requests of caller c
Requests(c) ==
    \/ Call(c)
    \/ \E l \in LineIds : ActiveGetActiveLine(c, l)
    \/ \E h \in Hashnames, a \in AddrInputs : ActiveGetLine(c, h, a)
    \/ \E h \in Hashnames : ActiveGetPeer(c, h)
    \/ \E h \in Hashnames, a \in AddrInputs : ActiveAddPeer(c, h, a)
    \/ \E h \in Hashnames, n \in 1..NumPeers : ActiveGetClosestPeers(c, h, n)
    \/ TermGetActiveLine(c)
    \/ TermGetLine(c)
    \/ TermGetPeer(c)
    \/ TermAddPeer(c)
    \/ TermGetClosestPeers(c)

\* GetLine requests only
Dials(c) ==
    \/ Call(c)
    \/ \E h \in Hashnames, a \in AddrInputs : ActiveGetLine(c, h, a)
    \/ TermGetLine(c)

\* The controller with its line runners, one API caller issuing every
\* request, and one caller of Close.
Next ==
    \/ Requests(1)
    \/ LineMessages
    \/ LineStep
    \/ CloseTest(1)
    \/ CloseSend(1)
    \/ CloseReturn(1)

Spec == Init /\ [][Next]_vars

\* The controller with its line runners and NumCallers callers that dial
\* concurrently (GetLine), and one caller of Close.
NextRace ==
    \/ \E c \in Callers : Dials(c)
    \/ LineMessages
    \/ LineStep
    \/ CloseTest(1)
    \/ CloseSend(1)
    \/ CloseReturn(1)

SpecRace == Init /\ [][NextRace]_vars

\* The controller with its line runners, one dialing caller and
\* NumClosers concurrent callers of Close.
NextClose ==
    \/ Dials(1)
    \/ LineMessages
    \/ TermShutdown
    \/ LineStep
    \/ \E k \in Closers : CloseTest(k)
    \/ \E k \in Closers : CloseSend(k)
    \/ \E k \in Closers : CloseReturn(k)

SpecClose == Init /\ [][NextClose]_vars

\* The controller with its line runners, one dialing caller and one caller
\* of Close, under the scheduling the runtime gives: a select case that
\* stays ready is eventually taken, a goroutine that can run eventually
\* does, and a line on which Shutdown was called eventually winds down.
NextShutdown ==
    \/ Dials(1)
    \/ LineMessages
    \/ LineStep
    \/ CloseTest(1)
    \/ CloseSend(1)
    \/ CloseReturn(1)

ShutLineStep(l) ==
    /\ line[l].shut
    /\ (LineGiveUp(l, FALSE) \/ LineTeardown(l))

Fairness ==
    /\ WF_vars(ActiveShutdown)
    /\ WF_vars(EnterTerminating)
    /\ WF_vars(Teardown)
    /\ WF_vars(CloseSend(1))
    /\ WF_vars(CloseReturn(1))
    /\ \A l \in LineIds :
           /\ WF_vars(TermRegister(l))
           /\ WF_vars(TermActivate(l))
           /\ WF_vars(TermDeactivate(l))
           /\ WF_vars(TermUnregister(l))
           /\ WF_vars(ShutLineStep(l))

SpecShutdown == Init /\ [][NextShutdown]_vars /\ Fairness

\* --------------------------------------- a tick of mapping mode, in steps
\* A tick of mapping mode as the steps between which LocalAddresses,
\* Close and a change of the local addresses may run. t.mtx is free
\* whenever the mapper is between two steps: each of its Lock..Unlock
\* sections is one step, which waits for the readers to leave. wr records
\* the mapper's last write to t.mapping or to an entry in it: what it
\* wrote, whether it held the lock, and the readers that were between
\* RLock and RUnlock.
Written(what, locked) == [what |-> what, locked |-> locked, readers |-> readers]

\* the select of runMappingMode takes a ticker; t.mtx.Lock(); copy the
\* table; v.stale = true; t.mtx.Unlock()
LkCopy(next) ==
    /\ nat_pc = "mapping"
    /\ mpc = "idle"
    /\ readers = {}
    /\ mapping' = [k \in DOMAIN mapping |-> [mapping[k] EXCEPT !.stale = TRUE]]
    /\ work' = [NoWork EXCEPT !.before = mapping]
    /\ mpc' = next
    /\ wr' = Written("stale", TRUE)
    /\ UNCHANGED <<nat, done, nat_pc, known, locals, tick, readers,
                   view, got, sel, ncl, calling>>
    /\ UNCHANGED ctl_vars

\* case <-updateTicker.C: updateMappings, the first locked section
LkUpdateBegin == LkCopy("update_query")

\* case <-refreshTicker.C: refreshMapping, the first locked section
LkRefreshBegin == LkCopy("refresh_query")

\* the address queries, the reading of the local addresses and the calls
\* of the device of a tick, whose results r stay in the tick's local
\* variables; with a failed query t.nat = nil. pend are the entries of
\* t.mapping the tick writes to
LkQueried(kind, r, ext, int, out, pend, next) ==
    /\ work' = [nat |-> r.nat, before |-> work.before, out |-> out,
                mapping |-> r.mapping,
                pending |-> IF r.nat THEN pend ELSE {},
                tick |-> Ticked(kind, r, ext, int)]
    /\ nat' = r.nat
    /\ mpc' = IF r.nat THEN next ELSE "clear"
    /\ UNCHANGED <<done, mapping, nat_pc, known, locals, tick, readers, view,
                   got, wr, sel, ncl, calling>>
    /\ UNCHANGED ctl_vars

\* updateMappings: GetExternalAddress, GetInternalAddress,
\* t.t.LocalAddresses(), AddPortMapping and DeletePortMapping; the entries
\* found in t.mapping are those to mark
LkUpdateQuery(ext, int, out) ==
    /\ mpc = "update_query"
    /\ LET r == updateMappings(work.before, locals, ext, int, out)
       IN LkQueried("update", r, ext, int, out,
                    {k \in DOMAIN mapping \cap DOMAIN r.mapping :
                        ~r.mapping[k].stale},
                    "update_write")

\* refreshMapping: GetExternalAddress, GetInternalAddress, AddPortMapping;
\* the entries mapped again are those to rewrite
LkRefreshQuery(ext, int, out) ==
    /\ mpc = "refresh_query"
    /\ LET r == refreshMapping(work.before, ext, int, out)
       IN LkQueried("refresh", r, ext, int, out, DOMAIN r.mapping,
                    "refresh_write")

\* updateMappings: m.stale = false on an entry found in t.mapping, with
\* t.mtx not held
LkUpdateMark(k) ==
    /\ mpc = "update_write"
    /\ k \in work.pending
    /\ mapping' = [mapping EXCEPT ![k].stale = FALSE]
    /\ work' = [work EXCEPT !.pending = @ \ {k}]
    /\ wr' = Written("stale", FALSE)
    /\ UNCHANGED <<nat, done, nat_pc, known, locals, tick, mpc, readers,
                   view, got, sel, ncl, calling>>
    /\ UNCHANGED ctl_vars

\* what the readers between RLock and RUnlock may have read once the
\* entry of key k holds the address a: what they may have read before,
\* or that with a for the entry
Seen(k, a) ==
    [r \in Readers |->
        IF r \in readers
        THEN view[r] \cup {[v EXCEPT ![k] = a] :
                              v \in {x \in view[r] : k \in DOMAIN x}}
        ELSE view[r]]

\* refreshMapping: m.external = globaddr on an entry mapped again, with
\* t.mtx not held
LkRefreshWrite(k) ==
    /\ mpc = "refresh_write"
    /\ k \in work.pending
    /\ mapping' = [mapping EXCEPT ![k].external = work.mapping[k].external]
    /\ work' = [work EXCEPT !.pending = @ \ {k}]
    /\ wr' = Written("external", FALSE)
    /\ view' = Seen(k, work.mapping[k].external)
    /\ UNCHANGED <<nat, done, nat_pc, known, locals, tick, mpc, readers,
                   got, sel, ncl, calling>>
    /\ UNCHANGED ctl_vars

\* t.mtx.Lock(); t.mapping = mapping; t.mtx.Unlock(), and the test of
\* t.nat in runMappingMode: the tick is over
LkSwap(at) ==
    /\ mpc = at
    /\ work.pending = {}
    /\ readers = {}
    /\ mapping' = work.mapping
    /\ tick' = work.tick
    /\ wr' = Written("table", TRUE)
    /\ mpc' = "idle"
    /\ work' = NoWork
    /\ UNCHANGED <<nat, done, nat_pc, known, locals, readers, view, got, sel,
                   ncl, calling>>
    /\ UNCHANGED ctl_vars

\* updateMappings, the last locked section
LkUpdateSwap == LkSwap("update_write")

\* refreshMapping, the last locked section
LkRefreshSwap == LkSwap("refresh_write")

\* a replacement of t.mapping that leaves the table in place
Cleared_keeps_table(what) ==
    /\ mapping' = mapping
    /\ wr' = Written(what, FALSE)
    /\ view' = view

\* a replacement of t.mapping by an empty map with t.mtx not held: a
\* reader that ranges over the map reads the old or the new one
Cleared(what) ==
    /\ mapping' = NoMapping
    /\ wr' = Written(what, FALSE)
    /\ view' = [r \in Readers |->
                   IF r \in readers THEN view[r] \cup {NoMapping}
                   ELSE view[r]]

\* runMappingMode after a tick that set t.nat = nil:
\* t.mapping = make(...), and runMapper enters runDiscoverMode
LkClear ==
    /\ mpc = "clear"
    /\ Cleared("clear")
    /\ tick' = work.tick
    /\ nat_pc' = "discover"
    /\ mpc' = "idle"
    /\ work' = NoWork
    /\ UNCHANGED <<nat, done, known, locals, readers, got, sel, ncl, calling>>
    /\ UNCHANGED ctl_vars

\* runMappingMode, case <-t.done: t.mapping = make(...)
LkDone ==
    /\ nat_pc = "mapping"
    /\ mpc = "idle"
    /\ done
    /\ Cleared("done")
    /\ nat_pc' = "exited"
    /\ UNCHANGED <<nat, done, known, locals, tick, mpc, work, readers, got,
                   sel, ncl, calling>>
    /\ UNCHANGED ctl_vars

\* the local addresses of the wrapped transport while the steps of a tick
\* are followed: none or one address that can be mapped, with or without
\* the addresses that cannot
Mappable == {a \in LocalUniverse : IsNATable(a)}
LockLocals == {{}} \cup {{a} : a \in Mappable}
NatLocals == {ls \cup other : ls \in LockLocals,
                              other \in {{}, LocalUniverse \ Mappable}}

\* The NAT mapper, the wrapped transport's addresses and Close.
NextNat ==
    \/ \E found \in BOOLEAN : NatDiscoverUpdate(found)
    \/ \E found \in BOOLEAN : NatDiscoverTick(found)
    \/ NatDiscoverDone
    \/ LkUpdateBegin
    \/ LkRefreshBegin
    \/ \E ext \in QueryAnswers(ExtIPs), int \in QueryAnswers(IntIPs) :
           \E out \in UpdateAnswers(ext, int) : LkUpdateQuery(ext, int, out)
    \/ \E ext \in QueryAnswers(ExtIPs), int \in QueryAnswers(IntIPs) :
           \E out \in RefreshAnswers(ext, int) : LkRefreshQuery(ext, int, out)
    \/ \E k \in DOMAIN mapping : LkUpdateMark(k)
    \/ \E k \in DOMAIN mapping : LkRefreshWrite(k)
    \/ LkUpdateSwap
    \/ LkRefreshSwap
    \/ LkClear
    \/ LkDone
    \/ NatClose
    \/ \E S \in NatLocals : NatLocalsChange(S)

SpecNat == Init /\ [][NextNat]_vars

\* ------------------------------------- Close of the transport, step by step
\* a close(t.done) of the closed channel panicked: the process is gone
Panicked == \E c \in NatClosers : ncl[c] = "panicked"

\* Close(): the select on t.done. With t.done closed Close goes on to
\* t.t.Close() and returns, otherwise it has chosen the default case
NatCloseSelect(c) ==
    /\ ~Panicked
    /\ ncl[c] = "out"
    /\ ncl' = [ncl EXCEPT ![c] = IF done THEN "out" ELSE "closing"]
    /\ UNCHANGED <<mpc, work, readers, view, got, wr, sel, calling>>
    /\ UNCHANGED <<ctl_vars, nat_vars>>

\* Close(), the default case: close(t.done), which panics on a closed
\* channel, then t.t.Close() and the return
NatCloseChan(c) ==
    /\ ~Panicked
    /\ ncl[c] = "closing"
    /\ ncl' = [ncl EXCEPT ![c] = IF done THEN "panicked" ELSE "out"]
    /\ done' = TRUE
    /\ UNCHANGED <<nat, mapping, nat_pc, known, locals, tick>>
    /\ UNCHANGED <<mpc, work, readers, view, got, wr, sel, calling>>
    /\ UNCHANGED ctl_vars

NextNatClose ==
    \/ \E found \in BOOLEAN : ~Panicked /\ NatDiscoverUpdate(found)
    \/ \E found \in BOOLEAN : ~Panicked /\ NatDiscoverTick(found)
    \/ ~Panicked /\ NatDiscoverDone
    \/ ~Panicked /\ LkUpdateBegin
    \/ ~Panicked /\ LkRefreshBegin
    \/ \E ext \in QueryAnswers(ExtIPs), int \in QueryAnswers(IntIPs) :
           \E out \in UpdateAnswers(ext, int) :
               ~Panicked /\ LkUpdateQuery(ext, int, out)
    \/ \E ext \in QueryAnswers(ExtIPs), int \in QueryAnswers(IntIPs) :
           \E out \in RefreshAnswers(ext, int) :
               ~Panicked /\ LkRefreshQuery(ext, int, out)
    \/ \E k \in DOMAIN mapping : ~Panicked /\ LkUpdateMark(k)
    \/ \E k \in DOMAIN mapping : ~Panicked /\ LkRefreshWrite(k)
    \/ ~Panicked /\ LkUpdateSwap
    \/ ~Panicked /\ LkRefreshSwap
    \/ ~Panicked /\ LkClear
    \/ ~Panicked /\ LkDone
    \/ \E c \in NatClosers : NatCloseSelect(c)
    \/ \E c \in NatClosers : NatCloseChan(c)
    \/ \E S \in LockLocals : ~Panicked /\ NatLocalsChange(S)

\* The mapper with concurrent callers of Close.
SpecNatClose == Init /\ [][NextNatClose]_vars

\* ------------------------------------------- LocalAddresses, in steps
\* LocalAddresses: addrs := t.t.LocalAddresses(), the addresses of the
\* wrapped transport, read before the lock is taken
RdCall(r) ==
    /\ r \notin calling
    /\ r \notin readers
    /\ calling' = calling \cup {r}
    /\ got' = [got EXCEPT ![r] = locals]
    /\ UNCHANGED <<mpc, work, readers, view, wr, sel, ncl>>
    /\ UNCHANGED <<ctl_vars, nat_vars>>

\* LocalAddresses: t.mtx.RLock()
RdLock(r) ==
    /\ r \in calling
    /\ calling' = calling \ {r}
    /\ readers' = readers \cup {r}
    /\ view' = [view EXCEPT ![r] =
                   {[k \in DOMAIN mapping |-> mapping[k].external]}]
    /\ UNCHANGED <<mpc, work, got, wr, sel, ncl>>
    /\ UNCHANGED <<ctl_vars, nat_vars>>

\* LocalAddresses: the range over t.mapping that appends the external
\* addresses read to addrs, t.mtx.RUnlock() and the return of addrs
RdUnlock(r) ==
    /\ r \in readers
    /\ \E v \in view[r] :
           got' = [got EXCEPT ![r] = @ \cup {v[k] : k \in DOMAIN v}]
    /\ readers' = readers \ {r}
    /\ view' = [view EXCEPT ![r] = {}]
    /\ UNCHANGED <<mpc, work, wr, sel, ncl, calling>>
    /\ UNCHANGED <<ctl_vars, nat_vars>>

NextLock ==
    \/ \E found \in BOOLEAN : NatDiscoverUpdate(found)
    \/ \E found \in BOOLEAN : NatDiscoverTick(found)
    \/ NatDiscoverDone
    \/ LkUpdateBegin
    \/ LkRefreshBegin
    \/ \E ext \in QueryAnswers(ExtIPs), int \in QueryAnswers(IntIPs) :
           \E out \in UpdateAnswers(ext, int) : LkUpdateQuery(ext, int, out)
    \/ \E ext \in QueryAnswers(ExtIPs), int \in QueryAnswers(IntIPs) :
           \E out \in RefreshAnswers(ext, int) : LkRefreshQuery(ext, int, out)
    \/ \E k \in DOMAIN mapping : LkUpdateMark(k)
    \/ \E k \in DOMAIN mapping : LkRefreshWrite(k)
    \/ LkUpdateSwap
    \/ LkRefreshSwap
    \/ LkClear
    \/ LkDone
    \/ NatClose
    \/ \E S \in LockLocals : NatLocalsChange(S)
    \/ \E r \in Readers : RdCall(r)
    \/ \E r \in Readers : RdLock(r)
    \/ \E r \in Readers : RdUnlock(r)

\* The mapper in steps with concurrent callers of LocalAddresses.
SpecLock == Init /\ [][NextLock]_vars

\* SelectCSID applied to every pair of key sets
NextCSID ==
    \/ \E a \in SUBSET CSIDs, b \in SUBSET CSIDs : SelectCall(a, b)
    \/ SelectReturn

SpecCSID == Init /\ [][NextCSID]_vars

\* ------------------------------------------------------------ claims
\* a line that was created (or registered) and is not yet unregistered
Live(l) == line[l].pc \notin {"none", "closed"}
LivePeers == {line[l].peer : l \in {x \in LineIds : Live(x)}}
Entries(m) == {k \in DOMAIN m : m[k] # Nil}

\* C1: at most one live line per peer hashname: it is the line stored at
\* lines[h], its peer's hashname is h, and the number of entries of lines is
\* the number of distinct hashnames with a line opened and not torn down.
C1_OneLinePerPeer ==
    /\ \A l1, l2 \in LineIds :
           Live(l1) /\ Live(l2) /\ line[l1].peer = line[l2].peer => l1 = l2
    /\ \A l \in LineIds : Live(l) => lines[line[l].peer] = l
    /\ \A h \in Hashnames :
           lines[h] # Nil => Live(lines[h]) /\ line[lines[h]].peer = h
    /\ Cardinality(Entries(lines)) = Cardinality(LivePeers)

\* a second line to a peer is live after the first one was torn down
C1_Witness ==
    \E l1, l2 \in LineIds :
        /\ line[l1].pc = "closed"
        /\ Live(l2)
        /\ line[l1].peer = line[l2].peer
        /\ lines[line[l2].peer] = l2

\* the step is the handling of a GetLine of caller c by the running loop
GetLineHandled(c) ==
    /\ call_pc[c] = "send"
    /\ call_pc'[c] = "idle"
    /\ last'.op = "GetLine"
    /\ last'.loop = "active"

NothingCreated == lines' = lines /\ line' = line /\ next_line' = next_line

\* the running loop answered a GetLine with a line, and the request it
\* received before was a GetLine for the same hashname, answered with a
\* line while this caller was already blocked at its send
ConcurrentGetLine ==
    /\ last.op = "GetLine"
    /\ last.loop = "active"
    /\ last.prev # Nil

\* C2 as stated: every caller of concurrent GetLine(h) requests receives
\* the same line object: the request handled later gets the line that was
\* replied to the one handled before it, whatever happened in between.
C2_Original == ConcurrentGetLine => last.val = last.prev

\* a line a caller got from GetLine is, until it is unregistered, the line
\* of its peer in lines, so two callers never hold two different live
\* lines to one hashname
HeldLinesAgree ==
    /\ \A c \in Callers :
           held[c] # Nil /\ Live(held[c]) => lines[line[held[c]].peer] = held[c]
    /\ \A c1, c2 \in Callers :
           (/\ held[c1] # Nil
            /\ held[c2] # Nil
            /\ Live(held[c1])
            /\ Live(held[c2])
            /\ line[held[c1]].peer = line[held[c2]].peer) => held[c1] = held[c2]

\* C2 as amended: of two concurrent GetLine(h) requests, the one handled
\* later gets the line replied to the one handled before it, and creates
\* nothing, exactly when that line is still the line of h in lines; when
\* the line was unregistered in between, the later request gets another
\* value (a newly created line, or nil). The lines the callers hold agree
\* as long as they are live.
C2_SameLine ==
    /\ []HeldLinesAgree
    /\ [][\A c \in Callers :
             (/\ GetLineHandled(c)
              /\ last.op = "GetLine"
              /\ last.loop = "active"
              /\ last.val # Nil
              /\ c \in last.waiting
              /\ last'.arg = last.arg) =>
                 /\ last'.prev = last.val
                 /\ lines[last.arg] = last.val =>
                        last'.val = last.val /\ NothingCreated
                 /\ lines[last.arg] # last.val =>
                        /\ lines[last.arg] = Nil
                        /\ last'.val # last.val
                        /\ last'.val # Nil =>
                               /\ line[last'.val].pc = "none"
                               /\ lines'[last.arg] = last'.val]_vars

\* two concurrent requests were answered with the same line, which both
\* callers hold
C2_Witness ==
    /\ ConcurrentGetLine
    /\ last.val = last.prev
    /\ \E c \in Callers \ {last.c} :
           /\ call_pc[c] = "idle"
           /\ held[c] = last.val
           /\ held[last.c] = last.val

\* every line of active_lines is stored under its own local token and is
\* the line of its peer in lines
ActiveLinesKeyed ==
    \A t \in Tokens :
        active_lines[t] # Nil =>
            /\ local_token(active_lines[t]) = t
            /\ lines[line[active_lines[t]].peer] = active_lines[t]

\* every line of lines whose runner is in state open (its activate message
\* was taken by the controller) is in active_lines under its token
OpenLinesActive ==
    \A h \in Hashnames :
        lines[h] # Nil /\ line[lines[h]].pc = "open" =>
            active_lines[local_token(lines[h])] = lines[h]

\* C3 as stated: both directions in every reachable state
C3_Original == ActiveLinesKeyed /\ OpenLinesActive

\* C3 as amended: every line of active_lines is keyed by its own token and
\* is in lines, in every state; every open line of lines is in active_lines
\* while the controller is in the running loop.
C3_ActiveBijection ==
    /\ ActiveLinesKeyed
    /\ ctl_pc = "active" => OpenLinesActive

\* an open line is indexed while another line was already torn down
C3_Witness ==
    /\ ctl_pc = "active"
    /\ \E l \in LineIds :
           /\ line[l].pc = "open"
           /\ active_lines[local_token(l)] = l
    /\ \E l \in LineIds : line[l].pc = "closed"

\* C5: while the controller is terminating every query is answered with
\* nil and no caller is left waiting for its reply.
C5_QueriesAnswered ==
    /\ last.loop = "terminating" => last.kind = "nil"
    /\ \A c \in Callers : call_pc[c] # "recv"

\* C6: no Close caller stays blocked on the shutdown channel: once the
\* controller has stopped nobody receives from it, so a caller at the send
\* with the buffer full never returns.
C6_NoCloserBlocked ==
    ~(/\ ctl_pc = "stopped"
      /\ shutdown_n = ShutdownCap
      /\ \E k \in Closers : closer_pc[k] = "send")

\* C9: num_open_lines equals the number of entries of active_lines and is
\* never negative, in both loops.
C9_OpenLinesCounter ==
    /\ num_open_lines = Cardinality(Entries(active_lines))
    /\ num_open_lines >= 0

\* C4: after Close is called on a running controller the controller
\* enters the terminating state, sends Shutdown to every line present in
\* lines, does not leave the terminating loop while lines is non-empty,
\* and eventually stops with lines empty, so that Close returns.
CloseCalled == closer_pc[1] = "send"
C4_Shutdown ==
    /\ [][ctl_pc = "enter_terminating" /\ ctl_pc' # ctl_pc =>
              \A l \in Range(lines) : line'[l].shut]_vars
    /\ [](ctl_pc \in {"teardown", "stopped"} => Range(lines) = {})
    /\ (CloseCalled ~> main_terminating \in state)
    /\ (CloseCalled ~> (ctl_pc = "stopped" /\ Range(lines) = {}))
    /\ (CloseCalled ~> closer_pc[1] = "returned")

\* Close returned after lines that were shut down had unregistered
C4_Witness ==
    /\ closer_pc[1] = "returned"
    /\ ctl_pc = "stopped"
    /\ \A l \in LineIds : line[l].pc = "closed" /\ line[l].shut

\* the address get_line needs to dial: a transport address with a public
\* key or a relay
Dialable(p) == p.addr /\ (p.pubkey \/ p.via)

\* C7 as stated: GetLine returns the existing line, otherwise initiates
\* opening of a new line, and returns nil and creates no line whenever the
\* peer is marked is_down.
C7_Original ==
    [][\A c \in Callers : GetLineHandled(c) =>
          LET h == last'.arg
              l == last'.val
          IN /\ lines[h] # Nil => l = lines[h]
             /\ lines[h] = Nil /\ ~peers[h].is_down =>
                    l # Nil /\ lines'[h] = l
             /\ peers[h].is_down => l = Nil /\ NothingCreated]_vars

\* C7 as amended: GetLine returns the existing line; otherwise it merges
\* the hints into the peer record and opens a new line only when the peer
\* is then not marked is_down and has a transport address with a public
\* key or a relay; in the other cases it returns nil and creates no line,
\* and the caller (OpenChannel) is left without a line.
C7_GetLine ==
    [][\A c \in Callers : GetLineHandled(c) =>
          LET h == last'.arg
              l == last'.val
          IN /\ held'[c] = l
             /\ lines[h] # Nil => l = lines[h] /\ NothingCreated
             /\ lines[h] = Nil /\ peers'[h].is_down =>
                    l = Nil /\ NothingCreated
             /\ lines[h] = Nil /\ ~Dialable(peers'[h]) =>
                    l = Nil /\ NothingCreated
             /\ lines[h] = Nil /\ ~peers'[h].is_down /\ Dialable(peers'[h]) =>
                    /\ l # Nil
                    /\ line[l].pc = "none"
                    /\ line' = [line EXCEPT ![l] = NewLine(h)]
                    /\ lines' = [lines EXCEPT ![h] = l]]_vars

\* GetLine was answered with nil for a peer that is down, and left the
\* caller without a line
C7_Witness ==
    /\ last.op = "GetLine"
    /\ last.loop = "active"
    /\ last.kind = "nil"
    /\ peers[last.arg].is_down
    /\ Dialable(peers[last.arg])
    /\ lines[last.arg] = Nil
    /\ held[last.c] = Nil

\* a line to h was unregistered in state peer_down
WasDown(h) ==
    \E l \in LineIds :
        line[l].pc = "closed" /\ line[l].peer = h /\ line[l].peer_down

\* the step is the handling, by the running loop, of an AddPeer or a
\* GetLine of caller c for h whose address gave the record of h a path it
\* did not have
FreshPathHandled(c, h) ==
    /\ call_pc[c] = "send"
    /\ call_pc'[c] = "idle"
    /\ last'.op \in {"AddPeer", "GetLine"}
    /\ last'.loop = "active"
    /\ last'.arg = h
    /\ last'.path
    /\ \/ peers'[h].addr /\ ~peers[h].addr
       \/ peers'[h].via /\ ~peers[h].via

\* C8: a fresh path for a peer marked is_down, supplied through AddPeer or
\* a GetLine hint, clears the is_down flag, and the GetLine that finds the
\* peer without a line then opens a line again.
C8_DownUntilEvidence ==
    [][\A c \in Callers, h \in Hashnames :
          FreshPathHandled(c, h) /\ peers[h].is_down =>
              /\ ~peers'[h].is_down
              /\ last'.op = "GetLine" /\ lines[h] = Nil =>
                     /\ last'.val # Nil
                     /\ lines'[h] = last'.val]_vars

\* the step ends a tick of mapping mode
TickEnds == mpc \in {"update_write", "refresh_write", "clear"} /\ mpc' = "idle"

\* the step ends an update tick of mapping mode
UpdateTicked == TickEnds /\ tick'.kind = "update"

\* the step is the second of two consecutive update ticks whose address
\* queries succeeded, with the same set of local addresses
SecondUpdateTick ==
    /\ UpdateTicked
    /\ tick'.ok
    /\ tick.kind = "update"
    /\ tick.ok
    /\ tick'.locals = tick.locals

\* the tick made no call for a port mapping and the table it installs is
\* the table as it was when the tick began
NoCallsNoChange ==
    tick'.adds = {} /\ tick'.dels = {} /\ mapping' = work.before

\* C10 as stated: the second of two consecutive update ticks with the
\* same local addresses calls neither AddPortMapping nor DeletePortMapping
\* and leaves the mapping table as it was.
C10_Original == [][SecondUpdateTick => NoCallsNoChange]_vars

\* C10 as amended: the same, provided the first tick obtained a mapping
\* for every address it called AddPortMapping for, and the device answers
\* the same internal IP on both ticks.
C10_Idempotent ==
    [][(/\ SecondUpdateTick
        /\ tick.failed = {}
        /\ tick'.internal = tick.internal) => NoCallsNoChange]_vars

\* a second update tick found its mappings in place and made no call
C10_Witness ==
    /\ tick.kind = "update"
    /\ tick.again
    /\ tick.adds = {}
    /\ tick.dels = {}
    /\ DOMAIN mapping # {}
    /\ \A k \in DOMAIN mapping : ~mapping[k].stale

\* the step is that of a tick's address queries, of which one failed
FailedQuery ==
    /\ mpc \in {"update_query", "refresh_query"}
    /\ mpc' # mpc
    /\ ~work'.tick.ok

\* C11: a tick of mapping mode on which the query of the external or of
\* the internal IP fails drops the device; the mapper's next step clears
\* the mapping table and returns to discover mode; whenever the mapper is
\* in discover mode the table is empty and LocalAddresses is the wrapped
\* transport's addresses.
C11_FailureClears ==
    /\ [][FailedQuery => ~nat' /\ mpc' = "clear"]_vars
    /\ [][\A ext \in QueryAnswers(ExtIPs), int \in QueryAnswers(IntIPs) :
              (ext = Err \/ int = Err) =>
                  /\ \A out \in UpdateAnswers(ext, int) :
                         LkUpdateQuery(ext, int, out) => FailedQuery
                  /\ \A out \in RefreshAnswers(ext, int) :
                         LkRefreshQuery(ext, int, out) => FailedQuery]_vars
    /\ [](mpc = "clear" => ~nat /\ nat_pc = "mapping")
    /\ [][mpc = "clear" /\ <<nat, mapping, nat_pc, mpc>>' # <<nat, mapping, nat_pc, mpc>> =>
              /\ ~nat'
              /\ mapping' = NoMapping
              /\ nat_pc' = "discover"
              /\ ~tick'.ok]_vars
    /\ [](nat_pc = "discover" =>
              ~nat /\ mapping = NoMapping /\ LocalAddresses = locals)

\* a tick failed with entries in the table, and the mapper is back in
\* discover mode with the table cleared
C11_Witness ==
    /\ nat_pc = "discover"
    /\ tick.kind \in {"update", "refresh"}
    /\ ~tick.ok
    /\ tick.had
    /\ mapping = NoMapping
    /\ LocalAddresses = locals

\* a is the one NATable address among the local addresses ls
OnlyNATable(a, ls) ==
    /\ a \in ls
    /\ IsNATable(a)
    /\ \A b \in ls : IsNATable(b) => b = a

\* the external addresses LocalAddresses adds to the wrapped transport's
Advertised == {mapping[k].external : k \in DOMAIN mapping}

\* the step ends a tick of mapping mode whose address queries succeeded
\* and on which the device mapped every port it was asked for and
\* MakeGlobal yielded an address
GoodTick(kind) ==
    /\ TickEnds
    /\ tick'.kind = kind
    /\ tick'.ok
    /\ tick'.failed = {}

\* The steps of a mapper with the one NATable address a and a device that
\* answers every call: the first update tick of discover mode finds the
\* device and enters mapping mode; an update tick of mapping mode on the
\* empty table leaves exactly one external address, built from the
\* device's external IP and the mapped port; later update ticks keep it
\* and every refresh tick asks for the mapping again and keeps the address
\* advertised. ints are the internal IPs the device may report.
AdvertisesOne(a, ints) ==
    /\ (/\ known = {}
        /\ OnlyNATable(a, locals)
        /\ NatDiscoverUpdate(TRUE)) =>
           nat_pc' = "mapping" /\ mapping' = NoMapping
    /\ (/\ GoodTick("update")
        /\ OnlyNATable(a, tick'.locals)
        /\ tick'.internal \in ints) =>
           /\ work.before = NoMapping =>
                  /\ a \in DOMAIN work.out
                  /\ Advertised' =
                         {MakeGlobal(a, tick'.external, work.out[a].port)}
           /\ DOMAIN work.before = {KeyOf(a)} =>
                  /\ Advertised' =
                         {work.before[k].external : k \in DOMAIN work.before}
                  /\ tick'.adds = {}
                  /\ tick'.dels = {}
    /\ (/\ GoodTick("refresh")
        /\ OnlyNATable(a, tick'.locals)
        /\ tick'.internal \in ints
        /\ DOMAIN work.before = {KeyOf(a)}) =>
           /\ tick'.adds = {KeyOf(a)}
           /\ KeyOf(a) \in DOMAIN work.out
           /\ Advertised' =
                  {MakeGlobal(a, tick'.external, work.out[KeyOf(a)].port)}

\* C12 as stated: with one NATable local address and a device that
\* answers every call successfully, whatever internal IP it reports, two
\* update ticks lead from discover mode to exactly one advertised external
\* address, and every refresh tick renews it.
C12_Original ==
    [][\A a \in LocalUniverse : AdvertisesOne(a, IntIPs)]_vars

\* C12 as amended: the same, for a device that reports the IP of that
\* local address as its internal IP.
C12_AdvertisesOne ==
    [][\A a \in LocalUniverse : AdvertisesOne(a, {a.ip})]_vars

\* a refresh tick renewed the mapping of the one NATable address, which
\* is advertised with the device's external IP
C12_Witness ==
    /\ nat_pc = "mapping"
    /\ mpc = "idle"
    /\ tick.kind = "refresh"
    /\ tick.ok
    /\ \E a \in LocalUniverse :
           /\ OnlyNATable(a, tick.locals)
           /\ tick.adds = {KeyOf(a)}
           /\ DOMAIN mapping = {KeyOf(a)}
           /\ Advertised = {mapping[KeyOf(a)].external}
           /\ mapping[KeyOf(a)].external.ip = tick.external

\* the cipher set ids present in both key sets
Common == sel.a \cap sel.b
Greatest(S) == CHOOSE x \in S : \A y \in S : y <= x

\* C13 as stated: SelectCSID(a, b) is the greatest CSID present in both key
\* sets, the same for SelectCSID(b, a); with no CSID in common the
\* negotiation yields the failure InvalidKeys and no CSID.
C13_Original ==
    sel.pc = "returned" =>
        /\ Common # {} =>
               /\ sel.csid = Greatest(Common)
               /\ sel.csid = SelectCSID(sel.b, sel.a)
        /\ Common = {} => sel.failure = "InvalidKeys" /\ sel.csid = 0

\* C13 as amended: SelectCSID(a, b) is the greatest CSID present in both
\* key sets, the same for SelectCSID(b, a); with no CSID in common it
\* returns 0 and reports no failure.
C13_SelectMax ==
    sel.pc = "returned" =>
        /\ sel.csid = SelectCSID(sel.b, sel.a)
        /\ Common # {} => sel.csid = Greatest(Common)
        /\ Common = {} => sel.csid = 0 /\ sel.failure = "none"

\* {0x1a, 0x2a, 0x3a} against {0x2a, 0x3a} selected 0x3a
C13_Witness ==
    /\ sel.pc = "returned"
    /\ sel.a = {26, 42, 58}
    /\ sel.b = {42, 58}
    /\ sel.csid = 58

\* the controller is in run_terminating_loop
InTerminating == ctl_pc \in {"enter_terminating", "terminating"}

\* C14: while the controller is terminating, a line whose activation or
\* registration message is taken is sent Shutdown and is not inserted; no
\* entry is added to lines or to active_lines, both tables only shrink.
C14_NoInsertWhileTerminating ==
    [][InTerminating =>
          /\ \A h \in Hashnames : lines'[h] \in {lines[h], Nil}
          /\ \A t \in Tokens : active_lines'[t] \in {active_lines[t], Nil}
          /\ \A l \in LineIds :
                 TermActivate(l) \/ TermRegister(l) =>
                     /\ line'[l].shut
                     /\ lines' = lines
                     /\ active_lines' = active_lines]_vars

\* the terminating loop took the activation of a line: the line was sent
\* Shutdown and is in no entry of active_lines
C14_Witness ==
    /\ ctl_pc = "terminating"
    /\ \E l \in LineIds :
           /\ line[l].pc = "open"
           /\ line[l].shut
           /\ active_lines[local_token(l)] = Nil
           /\ lines[line[l].peer] = l

\* a line to h was unregistered
WasClosed(h) ==
    \E l \in LineIds : line[l].pc = "closed" /\ line[l].peer = h

\* C15: the unregistration of a line sets the peer's is_down flag exactly
\* when the line's state includes peer_down and leaves every other flag as
\* it was; a peer is marked is_down only after such a line, so the GetLine
\* that follows the unregistration of a line in another state opens a new
\* line.
C15_DownOnlyOnPeerDown ==
    /\ [][\A l \in LineIds :
              ActiveUnregister(l) \/ TermUnregister(l) =>
                  /\ peers'[line[l].peer].is_down =
                         (peers[line[l].peer].is_down \/ line[l].peer_down)
                  /\ \A g \in Hashnames \ {line[l].peer} : peers'[g] = peers[g]
                  /\ lines'[line[l].peer] = Nil]_vars
    /\ [][\A c \in Callers :
              (/\ GetLineHandled(c)
               /\ lines[last'.arg] = Nil
               /\ WasClosed(last'.arg)
               /\ ~WasDown(last'.arg)) =>
                  /\ last'.val # Nil
                  /\ lines'[last'.arg] = last'.val
                  /\ line'[last'.val] = NewLine(last'.arg)]_vars
    /\ [](\A h \in Hashnames : peers[h].is_down => WasDown(h))

\* a line that was not in state peer_down was unregistered, its peer is
\* not marked down, and the next GetLine opened a new line to it
C15_Witness ==
    /\ last.op = "GetLine"
    /\ last.loop = "active"
    /\ last.val # Nil
    /\ line[last.val].pc = "idle"
    /\ lines[last.arg] = last.val
    /\ WasClosed(last.arg)
    /\ ~WasDown(last.arg)
    /\ ~peers[last.arg].is_down

\* the switch has a seek handler registered
SeekHandlerRegistered == TRUE

\* the step is the handling of an AddPeer of caller c by the running loop
AddPeerHandled(c) ==
    /\ call_pc[c] = "send"
    /\ call_pc'[c] = "idle"
    /\ last'.op = "AddPeer"
    /\ last'.loop = "active"

\* C16: an AddPeer that creates a peer record attempts line establishment
\* to the peer before it replies (a line is opened when the peer can be
\* dialed) and starts a DHT seek for it when a seek handler is registered;
\* an AddPeer that merges into an existing record does neither.
C16_DiscoveredPeer ==
    [][\A c \in Callers :
          AddPeerHandled(c) =>
              LET h == last'.arg
              IN /\ last'.disc = ~peers[h].known
                 /\ last'.disc /\ Dialable(peers'[h]) =>
                        /\ lines'[h] # Nil
                        /\ line'[lines'[h]] = NewLine(h)
                 /\ last'.disc /\ SeekHandlerRegistered => last'.seek
                 /\ ~last'.disc =>
                        ~last'.seek /\ NothingCreated]_vars

\* C19: once the controller loop has exited, active_lines and lines are
\* empty, every line runner has finished, and no API caller is left at the
\* send of a command or waiting for a reply.
C19_NoTaskLeft ==
    ctl_pc = "stopped" =>
        /\ Range(active_lines) = {}
        /\ Range(lines) = {}
        /\ \A l \in LineIds : line[l].pc \in {"none", "closed"}
        /\ \A c \in Callers : call_pc[c] = "idle"

\* C20: num_running_lines is never negative and equals the number of
\* lines in lines, in both loops.
C20_RunningLinesCounter ==
    /\ num_running_lines >= 0
    /\ num_running_lines = Cardinality(Entries(lines))

\* the keys of the NATable addresses among ls on the internal IP int
CurrentKeys(ls, int) ==
    {KeyOf(a) : a \in {x \in ls : IsNATable(x) /\ x.ip = int}}

\* The table a successful update tick installs, with ls taken as the
\* current local addresses: it has an entry for a key exactly when the
\* key is that of a NATable address of ls on the device's internal IP for
\* which a port mapping was obtained, on an earlier tick or on this one;
\* DeletePortMapping was called for every other entry, which is removed,
\* and no entry left is marked stale.
Reconciled(ls) ==
    (UpdateTicked /\ tick'.ok) =>
        /\ DOMAIN mapping' =
               {k \in CurrentKeys(ls, tick'.internal) :
                   \/ k \in DOMAIN work.before
                   \/ \E a \in DOMAIN work.out :
                          KeyOf(a) = k /\ work.out[a].res = "ok"}
        /\ tick'.dels = DOMAIN work.before \ CurrentKeys(ls, tick'.internal)
        /\ \A k \in DOMAIN mapping' :
               /\ ~mapping'[k].stale
               /\ k \in DOMAIN work.before =>
                      mapping'[k].external = work.before[k].external

\* C17 as stated: the table installed by a successful update tick is
\* reconciled with the local addresses current when the tick ends.
C17_Original == [][Reconciled(locals')]_vars

\* C17 as amended: the table installed by a successful update tick is
\* reconciled with the local addresses the tick read.
C17_Reconciled == [][Reconciled(tick'.locals)]_vars

\* an update tick deleted the entry of an address that is gone and mapped
\* a new one
C17_Witness ==
    /\ mpc = "idle"
    /\ tick.kind = "update"
    /\ tick.ok
    /\ tick.dels # {}
    /\ tick.adds # {}
    /\ DOMAIN mapping = tick.adds
    /\ \A k \in DOMAIN mapping : ~mapping[k].stale

\* C18: every write of the mapper to the table or to an entry of it is
\* made with the write lock held and while no caller of LocalAddresses is
\* between RLock and RUnlock.
C18_RaceFree == wr.locked /\ wr.readers = {}

\* C21: after a successful update tick every external address that
\* LocalAddresses advertises carries the external IP the device reported
\* on that tick.
C21_ExternalCurrent ==
    (mpc = "idle" /\ tick.kind = "update" /\ tick.ok) =>
        \A k \in DOMAIN mapping : mapping[k].external.ip = tick.external

\* a step in which the mapper called the device: the queries and the
\* port-mapping calls of a tick of mapping mode, or a discovery that found
\* the device
DeviceCalled ==
    \/ mpc \in {"update_query", "refresh_query"} /\ mpc' # mpc
    \/ nat_pc = "discover" /\ nat_pc' = "mapping"

\* C22: Close called more than once, in turn or concurrently, closes the
\* done signal once, no close(t.done) panics, and once the done signal is
\* closed the mapper makes no further discovery or port-mapping call.
C22_CloseOnce ==
    /\ [](~Panicked)
    /\ [][done => ~DeviceCalled]_vars

====
